---- MODULE Spec2Model ----
(***************************************************************************)
(* A model of language/move-core/types/src/parser.rs: the tokenizer        *)
(* (next_number, next_token, tokenize), the token stream (Parser::next,    *)
(* peek, consume), the grammar routines (parse_comma_list, parse_string,   *)
(* parse_type_tag, parse_transaction_argument) and the public entry        *)
(* points built on parse.                                                  *)
(*                                                                         *)
(* A text is a sequence of characters; a character is a one-character      *)
(* string, except the non-ASCII ones, which are named by their code point. *)
(* Lengths are byte lengths of the UTF-8 encoding, as str::len and         *)
(* String::len are.                                                        *)
(***************************************************************************)
EXTENDS Integers, Sequences, FiniteSets, TLC

VARIABLES
    entry,    \* the public entry point that was called
    input,    \* its argument s: &str
    pc,       \* position in parse: "tokenize", "parser", "grammar", "eof", "done", "panic"
              \* (in a call of parse_comma_list on its own: "list", "returned")
    s,        \* tokenize: the remaining slice
    v,        \* tokenize: the tokens pushed so far
    offs,     \* history: the byte offset in input at which each token of v started
    tokens,   \* parse: the filtered tokens with Token::EOF pushed
    res,      \* parse: what the grammar routine f returned, and the cursor it left
    result    \* what the entry point returned

vars == <<entry, input, pc, s, v, offs, tokens, res, result>>

---------------------------------------------------------------------------
(* Characters and the char predicates of the standard library.             *)

AsciiDigits == {"0", "1", "2", "3", "4", "5", "6", "7", "8", "9"}

AsciiLower ==
    {"a", "b", "c", "d", "e", "f", "g", "h", "i", "j", "k", "l", "m",
     "n", "o", "p", "q", "r", "s", "t", "u", "v", "w", "x", "y", "z"}

AsciiUpper ==
    {"A", "B", "C", "D", "E", "F", "G", "H", "I", "J", "K", "L", "M",
     "N", "O", "P", "Q", "R", "S", "T", "U", "V", "W", "X", "Y", "Z"}

AsciiHexDigits ==
    AsciiDigits \cup {"a", "b", "c", "d", "e", "f", "A", "B", "C", "D", "E", "F"}

AsciiAlphabetic == AsciiLower \cup AsciiUpper

AsciiAlphanumeric == AsciiAlphabetic \cup AsciiDigits

\* U+0020 SPACE, U+0009 TAB, U+000A LF, U+000C FF, U+000D CR
AsciiWhitespace == {" ", "\t", "\n", "\f", "\r"}

\* The printable ASCII characters in code order, U+0020 .. U+007E (the grave
\* accent is named by its code point).
AsciiPrintable ==
    <<" ", "!", "\"", "#", "$", "%", "&", "'", "(", ")", "*", "+", ",", "-", ".", "/",
      "0", "1", "2", "3", "4", "5", "6", "7", "8", "9", ":", ";", "<", "=", ">", "?",
      "@", "A", "B", "C", "D", "E", "F", "G", "H", "I", "J", "K", "L", "M", "N", "O",
      "P", "Q", "R", "S", "T", "U", "V", "W", "X", "Y", "Z", "[", "\\", "]", "^", "_",
      "U+0060", "a", "b", "c", "d", "e", "f", "g", "h", "i", "j", "k", "l", "m", "n", "o",
      "p", "q", "r", "s", "t", "u", "v", "w", "x", "y", "z", "{", "|", "}", "~">>

\* The ASCII characters of the model: the printable ones and the whitespace.
AsciiChars == {AsciiPrintable[i] : i \in 1..Len(AsciiPrintable)} \cup AsciiWhitespace

\* Non-ASCII characters of the model: U+00E9 (a letter: char::is_alphanumeric
\* holds, two bytes in UTF-8) and U+2603 (a symbol, three bytes).
NonAsciiAlphanumeric == {"U+00E9"}

NonAscii == NonAsciiAlphanumeric \cup {"U+2603"}

is_ascii(c) == c \notin NonAscii

is_ascii_digit(c) == c \in AsciiDigits

is_ascii_hexdigit(c) == c \in AsciiHexDigits

is_ascii_alphabetic(c) == c \in AsciiAlphabetic

is_ascii_alphanumeric(c) == c \in AsciiAlphanumeric

is_ascii_whitespace(c) == c \in AsciiWhitespace

\* char::is_alphanumeric is the Unicode predicate.
is_alphanumeric(c) == c \in AsciiAlphanumeric \cup NonAsciiAlphanumeric

\* identifier::is_valid_identifier_char
IdentifierChars == AsciiAlphanumeric \cup {"_"}

is_valid_identifier_char(c) == c \in IdentifierChars

len_utf8(c) == CASE c = "U+00E9" -> 2 [] c = "U+2603" -> 3 [] OTHER -> 1

\* The code of an ASCII character.
Ord(c) ==
    CASE c = "\t" -> 9
      [] c = "\n" -> 10
      [] c = "\f" -> 12
      [] c = "\r" -> 13
      [] OTHER -> 31 + (CHOOSE i \in 1..Len(AsciiPrintable) : AsciiPrintable[i] = c)

RECURSIVE str_len(_)
\* str::len, String::len: the length in bytes.
str_len(r) == IF r = <<>> THEN 0 ELSE len_utf8(Head(r)) + str_len(Tail(r))

\* Whether byte offset b of r is a char boundary (str::is_char_boundary).
is_char_boundary(r, b) == \E i \in 0..Len(r) : str_len(SubSeq(r, 1, i)) = b

\* &r[b..] for a char boundary b.
slice_from(r, b) ==
    LET i == CHOOSE j \in 0..Len(r) : str_len(SubSeq(r, 1, j)) = b
    IN  SubSeq(r, i + 1, Len(r))

\* The index of the first character of `it` at or after index i that is not in
\* `set`, Len(it) + 1 when there is none: where a loop that takes characters
\* while they are in `set` stops.
RunEnd(it, i, set) ==
    LET stops == {j \in i..Len(it) : it[j] \notin set}
    IN  IF stops = {} THEN Len(it) + 1
        ELSE CHOOSE j \in stops : \A k \in stops : j <= k

---------------------------------------------------------------------------
(* Tokens: enum Token.  k is the variant, str its String payload (<<>> for *)
(* a variant without one).                                                 *)

Tok(k, str) == [k |-> k, str |-> str]

Unit(k) == Tok(k, <<>>)

NoToken == Unit("-")

is_whitespace(tok) == tok.k = "Whitespace"

name_token(r) ==
    CASE r = <<"u", "8">> -> Unit("U8Type")
      [] r = <<"u", "6", "4">> -> Unit("U64Type")
      [] r = <<"u", "1", "2", "8">> -> Unit("U128Type")
      [] r = <<"b", "o", "o", "l">> -> Unit("BoolType")
      [] r = <<"a", "d", "d", "r", "e", "s", "s">> -> Unit("AddressType")
      [] r = <<"v", "e", "c", "t", "o", "r">> -> Unit("VectorType")
      [] r = <<"t", "r", "u", "e">> -> Unit("True")
      [] r = <<"f", "a", "l", "s", "e">> -> Unit("False")
      [] r = <<"s", "i", "g", "n", "e", "r">> -> Unit("SignerType")
      [] OTHER -> Tok("Name", r)

\* Result<Option<(Token, usize)>> and Result<(Token, usize)>
SomeTok(tok, n) == [st |-> "Some", tok |-> tok, n |-> n, err |-> ""]

NoneTok == [st |-> "None", tok |-> NoToken, n |-> 0, err |-> ""]

LexErr(msg) == [st |-> "Err", tok |-> NoToken, n |-> 0, err |-> msg]

\* number_token with u128 taken for u64
number_token_u128_as_u64(num, suffix, len) ==
    CASE suffix = <<"u", "8">> -> SomeTok(Tok("U8", num), len)
      [] suffix \in {<<"u", "6", "4">>, <<"u", "1", "2", "8">>} -> SomeTok(Tok("U64", num), len)
      [] OTHER -> LexErr("invalid suffix")

\* next_number: match suffix.as_str()
number_token(num, suffix, len) ==
    CASE suffix = <<"u", "8">> -> SomeTok(Tok("U8", num), len)
      [] suffix = <<"u", "6", "4">> -> SomeTok(Tok("U64", num), len)
      [] suffix = <<"u", "1", "2", "8">> -> SomeTok(Tok("U128", num), len)
      [] OTHER -> LexErr("invalid suffix")

\* next_number with the suffix left out of the length it returns
next_number_len_without_suffix(initial, it) ==
    LET e == RunEnd(it, 1, AsciiDigits)
        num == <<initial>> \o SubSeq(it, 1, e - 1)
    IN  IF e <= Len(it) /\ is_alphanumeric(it[e])
        THEN LET f == RunEnd(it, e + 1, AsciiAlphanumeric)
                 suffix == SubSeq(it, e, f - 1)
                 len == str_len(num)
             IN  number_token(num, suffix, len)
        ELSE SomeTok(Tok("U64", num), str_len(num))

\* `it` is the iterator after `initial`: the characters that follow it.
next_number(initial, it) ==
    LET e == RunEnd(it, 1, AsciiDigits)
        num == <<initial>> \o SubSeq(it, 1, e - 1)
    IN  IF e <= Len(it) /\ is_alphanumeric(it[e])
        THEN LET f == RunEnd(it, e + 1, AsciiAlphanumeric)
                 suffix == SubSeq(it, e, f - 1)
                 len == str_len(num) + str_len(suffix)
             IN  number_token(num, suffix, len)
        ELSE SomeTok(Tok("U64", num), str_len(num))

\* The value of a hex digit.
HexVal(c) ==
    CASE c \in AsciiDigits -> Ord(c) - 48
      [] c \in {"a", "b", "c", "d", "e", "f"} -> Ord(c) - 87
      [] c \in {"A", "B", "C", "D", "E", "F"} -> Ord(c) - 55

HexChars == <<"0", "1", "2", "3", "4", "5", "6", "7", "8", "9", "a", "b", "c", "d", "e", "f">>

\* hex::encode: two lowercase hex digits per byte.
hex_encode(r) ==
    [i \in 1..(2 * Len(r)) |->
        LET b == Ord(r[(i + 1) \div 2])
        IN  IF i % 2 = 1 THEN HexChars[(b \div 16) + 1] ELSE HexChars[(b % 16) + 1]]

\* ascii_bytes_token without hex::encode
ascii_bytes_token_unencoded(r) == SomeTok(Tok("Bytes", r), str_len(r) + 3)

\* next_token, the b" arm after the closing quote: let len = r.len() + 3;
\* (Token::Bytes(hex::encode(r)), len)
ascii_bytes_token(r) == SomeTok(Tok("Bytes", hex_encode(r)), str_len(r) + 3)

next_token(str) ==
    IF str = <<>> THEN NoneTok
    ELSE
    LET c == Head(str)
        it == Tail(str)
        peek_is(ch) == it # <<>> /\ it[1] = ch
    IN  IF c = "<" THEN SomeTok(Unit("Lt"), 1)
        ELSE IF c = ">" THEN SomeTok(Unit("Gt"), 1)
        ELSE IF c = "," THEN SomeTok(Unit("Comma"), 1)
        ELSE IF c = ":" THEN
            IF peek_is(":") THEN SomeTok(Unit("ColonColon"), 2)
            ELSE LexErr("unrecognized token")
        ELSE IF c = "0" /\ (peek_is("x") \/ peek_is("X")) THEN
            IF Len(it) >= 2 /\ is_ascii_hexdigit(it[2])
            THEN LET e == RunEnd(it, 3, AsciiHexDigits)
                     r == <<"0", "x">> \o SubSeq(it, 2, e - 1)
                 IN  SomeTok(Tok("Address", r), str_len(r))
            ELSE LexErr("unrecognized token")
        ELSE IF is_ascii_digit(c) THEN next_number(c, it)
        ELSE IF c = "b" /\ peek_is("\"") THEN
            LET e == RunEnd(it, 2, AsciiChars \ {"\""})
                r == SubSeq(it, 2, e - 1)
            IN  IF e <= Len(it) /\ it[e] = "\""
                THEN ascii_bytes_token(r)
                ELSE LexErr("unrecognized token")
        ELSE IF c = "x" /\ peek_is("\"") THEN
            LET e == RunEnd(it, 2, AsciiHexDigits)
                r == SubSeq(it, 2, e - 1)
            IN  IF e <= Len(it) /\ it[e] = "\""
                THEN SomeTok(Tok("Bytes", r), str_len(r) + 3)
                ELSE LexErr("unrecognized token")
        ELSE IF is_ascii_whitespace(c) THEN
            LET e == RunEnd(it, 1, AsciiWhitespace)
                r == <<c>> \o SubSeq(it, 1, e - 1)
            IN  SomeTok(Tok("Whitespace", r), str_len(r))
        ELSE IF is_ascii_alphabetic(c) THEN
            LET e == RunEnd(it, 1, IdentifierChars)
                r == <<c>> \o SubSeq(it, 1, e - 1)
            IN  SomeTok(name_token(r), str_len(r))
        ELSE LexErr("unrecognized token")

---------------------------------------------------------------------------
(* Values.  A Result<T> of a parser routine carries the cursor the routine *)
(* left: pos is the index in the token vector of the token Parser::next    *)
(* returns next (the Peekable iterator's position).  An error is its       *)
(* message, with the number the message was formatted with.                *)

NoValue == [tag |-> "none"]

Ok(val, pos) == [ok |-> TRUE, val |-> val, pos |-> pos, err |-> "", arg |-> 0]

\* An error whose message is msg formatted with the number arg
ErrArg(msg, arg, pos) == [ok |-> FALSE, val |-> NoValue, pos |-> pos, err |-> msg, arg |-> arg]

Err(msg, pos) == ErrArg(msg, 0, pos)

EOF == Unit("EOF")

\* Parser::next
next(toks, pos) ==
    IF pos <= Len(toks) THEN Ok(toks[pos], pos + 1)
    ELSE Err("out of tokens, this should not happen", pos)

\* self.peek() == Some(&tok)
peek_is(toks, pos, tok) == pos <= Len(toks) /\ toks[pos] = tok

\* consume that takes any token for tok
consume_unchecked(toks, pos, tok) ==
    LET t == next(toks, pos)
    IN  IF ~t.ok THEN t ELSE Ok(NoValue, t.pos)

\* Parser::consume
consume(toks, pos, tok) ==
    LET t == next(toks, pos)
    IN  IF ~t.ok THEN t
        ELSE IF t.val # tok THEN Err("expected token", t.pos)
        ELSE Ok(NoValue, t.pos)

\* Parser::parse_string
parse_string(toks, pos) ==
    LET t == next(toks, pos)
    IN  IF ~t.ok THEN t
        ELSE IF t.val.k = "Name" THEN Ok(t.val.str, t.pos)
        ELSE Err("unexpected token, expected string", t.pos)

---------------------------------------------------------------------------
(* Numbers.  A u8, u64 or u128 value is written as its decimal digits,     *)
(* most significant first and without leading zeros (<<0>> is zero): the   *)
(* values reach 2^128 - 1.                                                 *)

\* u8::MAX, u64::MAX, u128::MAX
MaxValue(w) ==
    CASE w = 8 -> <<2, 5, 5>>
      [] w = 64 -> <<1, 8, 4, 4, 6, 7, 4, 4, 0, 7, 3, 7, 0, 9, 5, 5, 1, 6, 1, 5>>
      [] w = 128 -> <<3, 4, 0, 2, 8, 2, 3, 6, 6, 9, 2, 0, 9, 3, 8, 4, 6, 3, 4, 6,
                      3, 3, 7, 4, 6, 0, 7, 4, 3, 1, 7, 6, 8, 2, 1, 1, 4, 5, 5>>

\* a <= b for two values
NumLeq(a, b) ==
    \/ Len(a) < Len(b)
    \/ /\ Len(a) = Len(b)
       /\ \/ a = b
          \/ \E i \in 1..Len(a) : a[i] < b[i] /\ \A j \in 1..(i - 1) : a[j] = b[j]

\* result.checked_mul(10)
checked_mul10(val, w) ==
    LET m == IF val = <<0>> THEN val ELSE Append(val, 0)
    IN  IF NumLeq(m, MaxValue(w)) THEN Ok(m, 0) ELSE Err("PosOverflow", 0)

\* result.checked_add(d) for a result that checked_mul(10) returned: its last
\* digit is 0
checked_add(val, d, w) ==
    LET a == [val EXCEPT ![Len(val)] = d]
    IN  IF NumLeq(a, MaxValue(w)) THEN Ok(a, 0) ELSE Err("PosOverflow", 0)

RECURSIVE from_str_radix(_, _, _, _)
\* str::parse::<uW>() on digits: the loop of core::num's from_str_radix over
\* the characters from index i on, for radix 10
from_str_radix(digits, i, acc, w) ==
    IF i > Len(digits) THEN Ok(acc, 0)
    ELSE IF ~is_ascii_digit(digits[i]) THEN Err("InvalidDigit", 0)
    ELSE LET m == checked_mul10(acc, w)
         IN  IF ~m.ok THEN m
             ELSE LET a == checked_add(m.val, HexVal(digits[i]), w)
                  IN  IF ~a.ok THEN a
                      ELSE from_str_radix(digits, i + 1, a.val, w)

\* s.parse()? for a token's digit text
parse_uint(digits, w) ==
    IF digits = <<>> THEN Err("Empty", 0) ELSE from_str_radix(digits, 1, <<0>>, w)

\* hex::decode: a byte per pair of hex digits of either case
hex_decode(str) ==
    IF Len(str) % 2 = 1 THEN Err("OddLength", 0)
    ELSE IF \E i \in 1..Len(str) : ~is_ascii_hexdigit(str[i])
    THEN Err("InvalidHexCharacter", 0)
    ELSE Ok([i \in 1..(Len(str) \div 2) |->
                16 * HexVal(str[2 * i - 1]) + HexVal(str[2 * i])], 0)

---------------------------------------------------------------------------
(* The collaborators: AccountAddress, Identifier, safe_serialize.          *)

\* AccountAddress::LENGTH, in bytes
ADDRESS_LENGTH == 16

\* AccountAddress::from_hex_literal: the literal is 0x and hex digits; the
\* digits are padded on the left with zeros to the address width, and more
\* digits than the width are an error.  The address is written as its
\* 2 * ADDRESS_LENGTH lowercase hex digits.
from_hex_literal(literal) ==
    IF Len(literal) < 2 \/ SubSeq(literal, 1, 2) # <<"0", "x">>
    THEN Err("AccountAddressParseError", 0)
    ELSE LET hex == SubSeq(literal, 3, Len(literal))
             pad == 2 * ADDRESS_LENGTH - Len(hex)
         IN  IF pad < 0 \/ \E i \in 1..Len(hex) : ~is_ascii_hexdigit(hex[i])
             THEN Err("AccountAddressParseError", 0)
             ELSE Ok([i \in 1..(2 * ADDRESS_LENGTH) |->
                         IF i <= pad THEN "0" ELSE HexChars[HexVal(hex[i - pad]) + 1]], 0)

\* Identifier::new: a letter followed by identifier characters, or an
\* underscore followed by at least one
identifier_new(str) ==
    IF /\ str # <<>>
       /\ \A i \in 2..Len(str) : is_valid_identifier_char(str[i])
       /\ \/ is_ascii_alphabetic(str[1])
          \/ str[1] = "_" /\ Len(str) > 1
    THEN Ok(str, 0)
    ELSE Err("Invalid identifier", 0)

\* crate::safe_serialize::MAX_TYPE_TAG_NESTING: the configured maximum, a
\* parameter of the model
MAX_TYPE_TAG_NESTING == 3

---------------------------------------------------------------------------
(* The grammar routines.                                                   *)

\* enum TypeTag, struct StructTag, enum TransactionArgument
Prim(tag) == [tag |-> tag]

Vector(ty) == [tag |-> "Vector", ty |-> ty]

StructTag(address, module, name, type_params) ==
    [address |-> address, module |-> module, name |-> name, type_params |-> type_params]

Struct(st) == [tag |-> "Struct", st |-> st]

Arg(tag, val) == [tag |-> tag, val |-> val]

\* Parser::parse_transaction_argument
parse_transaction_argument(toks, pos) ==
    LET t == next(toks, pos)
        tok == t.val
        lift(r, tag) == IF r.ok THEN Ok(Arg(tag, r.val), t.pos) ELSE Err(r.err, t.pos)
    IN  IF ~t.ok THEN t
        ELSE CASE tok.k = "U8" -> lift(parse_uint(tok.str, 8), "U8")
               [] tok.k = "U64" -> lift(parse_uint(tok.str, 64), "U64")
               [] tok.k = "U128" -> lift(parse_uint(tok.str, 128), "U128")
               [] tok.k = "True" -> Ok(Arg("Bool", TRUE), t.pos)
               [] tok.k = "False" -> Ok(Arg("Bool", FALSE), t.pos)
               [] tok.k = "Address" -> lift(from_hex_literal(tok.str), "Address")
               [] tok.k = "Bytes" -> lift(hex_decode(tok.str), "U8Vector")
               [] OTHER -> Err("unexpected token, expected transaction argument", t.pos)

\* The closure handed to parse_comma_list: the routine it calls and, for
\* parse_type_tag, the depth it passes
Item(f, depth) == [f |-> f, depth |-> depth]

RECURSIVE parse_type_tag(_, _, _)
RECURSIVE comma_loop(_, _, _, _, _, _)

\* The guard with > for >=
nesting_limit_off_by_one(depth) == depth > MAX_TYPE_TAG_NESTING

\* No guard
nesting_limit_never(depth) == FALSE

\* parse_type_tag: depth >= crate::safe_serialize::MAX_TYPE_TAG_NESTING, on a u8
nesting_limit_reached(depth) == depth >= MAX_TYPE_TAG_NESTING

\* parse_list_item(self)
parse_list_item(item, toks, pos) ==
    CASE item.f = "parse_string" -> parse_string(toks, pos)
      [] item.f = "parse_type_tag" -> parse_type_tag(toks, pos, item.depth)
      [] item.f = "parse_transaction_argument" -> parse_transaction_argument(toks, pos)

\* Parser::parse_comma_list
parse_comma_list(item, end_token, allow_trailing_comma, toks, pos) ==
    IF ~peek_is(toks, pos, end_token)
    THEN comma_loop(item, end_token, allow_trailing_comma, toks, pos, <<>>)
    ELSE Ok(<<>>, pos)

\* comma_next that takes a trailing comma whatever allow_trailing_comma is
comma_next_trailing_always(r, item, end_token, allow_trailing_comma, toks, vec) ==
    IF ~r.ok THEN r
    ELSE IF peek_is(toks, r.pos, end_token) THEN Ok(Append(vec, r.val), r.pos)
    ELSE LET c == consume(toks, r.pos, Unit("Comma"))
         IN  IF ~c.ok THEN c
             ELSE IF peek_is(toks, c.pos, end_token)
             THEN Ok(Append(vec, r.val), c.pos)
             ELSE comma_loop(item, end_token, allow_trailing_comma, toks, c.pos,
                             Append(vec, r.val))

\* The loop of parse_comma_list after parse_list_item(self) returned r, with
\* the items vec pushed before
comma_next(r, item, end_token, allow_trailing_comma, toks, vec) ==
    IF ~r.ok THEN r
    ELSE IF peek_is(toks, r.pos, end_token) THEN Ok(Append(vec, r.val), r.pos)
    ELSE LET c == consume(toks, r.pos, Unit("Comma"))
         IN  IF ~c.ok THEN c
             ELSE IF peek_is(toks, c.pos, end_token) /\ allow_trailing_comma
             THEN Ok(Append(vec, r.val), c.pos)
             ELSE comma_loop(item, end_token, allow_trailing_comma, toks, c.pos,
                             Append(vec, r.val))

\* The loop of parse_comma_list, from its top
comma_loop(item, end_token, allow_trailing_comma, toks, pos, vec) ==
    comma_next(parse_list_item(item, toks, pos),
               item, end_token, allow_trailing_comma, toks, vec)

\* parse_type_tag, Token::Address arm: self.consume(Token::Gt)? after the list l
close_ty_args(l, toks) ==
    IF ~l.ok THEN l
    ELSE LET gt == consume(toks, l.pos, Unit("Gt"))
         IN  IF ~gt.ok THEN gt ELSE Ok(l.val, gt.pos)

\* ty_args_of with the trailing comma not allowed
ty_args_of_no_trailing_comma(toks, pos, depth) ==
    IF peek_is(toks, pos, Unit("Lt"))
    THEN close_ty_args(
             parse_comma_list(Item("parse_type_tag", depth + 1), Unit("Gt"), FALSE,
                              toks, next(toks, pos).pos),
             toks)
    ELSE Ok(<<>>, pos)

\* parse_type_tag, Token::Address arm: let ty_args = ...
ty_args_of(toks, pos, depth) ==
    IF peek_is(toks, pos, Unit("Lt"))
    THEN close_ty_args(
             parse_comma_list(Item("parse_type_tag", depth + 1), Unit("Gt"), TRUE,
                              toks, next(toks, pos).pos),
             toks)
    ELSE Ok(<<>>, pos)

\* parse_type_tag, Token::Address arm: TypeTag::Struct(Box::new(StructTag {..}))
new_struct(addr, module_str, name_str, ty_args) ==
    IF ~ty_args.ok THEN ty_args ELSE
    LET address == from_hex_literal(addr)
        module == identifier_new(module_str)
        name == identifier_new(name_str)
    IN  IF ~address.ok THEN Err(address.err, ty_args.pos)
        ELSE IF ~module.ok THEN Err(module.err, ty_args.pos)
        ELSE IF ~name.ok THEN Err(name.err, ty_args.pos)
        ELSE Ok(Struct(StructTag(address.val, module.val, name.val, ty_args.val)),
                ty_args.pos)

\* parse_type_tag, Token::Address arm, after the address token
parse_struct(addr, toks, pos, depth) ==
    LET c1 == consume(toks, pos, Unit("ColonColon"))
    IN  IF ~c1.ok THEN c1 ELSE
    LET m == next(toks, c1.pos)
    IN  IF ~m.ok THEN m ELSE
        IF m.val.k # "Name" THEN Err("expected name", m.pos) ELSE
    LET c2 == consume(toks, m.pos, Unit("ColonColon"))
    IN  IF ~c2.ok THEN c2 ELSE
    LET n == next(toks, c2.pos)
    IN  IF ~n.ok THEN n ELSE
        IF n.val.k # "Name" THEN Err("expected name", n.pos) ELSE
        new_struct(addr, m.val.str, n.val.str, ty_args_of(toks, n.pos, depth))

\* close_vector that returns the nested type tag unwrapped
close_vector_unwrapped(ty, toks) ==
    IF ~ty.ok THEN ty
    ELSE LET gt == consume(toks, ty.pos, Unit("Gt"))
         IN  IF ~gt.ok THEN gt ELSE Ok(ty.val, gt.pos)

\* parse_type_tag, Token::VectorType arm: self.consume(Token::Gt)? after the
\* nested type tag ty
close_vector(ty, toks) ==
    IF ~ty.ok THEN ty
    ELSE LET gt == consume(toks, ty.pos, Unit("Gt"))
         IN  IF ~gt.ok THEN gt ELSE Ok(Vector(ty.val), gt.pos)

\* Parser::parse_type_tag.  depth + 1 is a u8 sum that cannot overflow:
\* depth < MAX_TYPE_TAG_NESTING <= 255 where it is computed.
parse_type_tag(toks, pos, depth) ==
    IF nesting_limit_reached(depth)
    THEN ErrArg("Exceeded TypeTag nesting limit during parsing", depth, pos)
    ELSE
    LET t == next(toks, pos)
        k == t.val.k
    IN  IF ~t.ok THEN t
        ELSE CASE k = "U8Type" -> Ok(Prim("U8"), t.pos)
               [] k = "U64Type" -> Ok(Prim("U64"), t.pos)
               [] k = "U128Type" -> Ok(Prim("U128"), t.pos)
               [] k = "BoolType" -> Ok(Prim("Bool"), t.pos)
               [] k = "AddressType" -> Ok(Prim("Address"), t.pos)
               [] k = "SignerType" -> Ok(Prim("Signer"), t.pos)
               [] k = "VectorType" ->
                    LET lt == consume(toks, t.pos, Unit("Lt"))
                    IN  IF ~lt.ok THEN lt
                        ELSE close_vector(parse_type_tag(toks, lt.pos, depth + 1), toks)
               [] k = "Address" -> parse_struct(t.val.str, toks, t.pos, depth)
               [] OTHER -> Err("unexpected token, expected type tag", t.pos)

---------------------------------------------------------------------------
(* parse and the six public entry points.                                  *)

Entries ==
    {"parse_string_list", "parse_type_tags", "parse_type_tag",
     "parse_transaction_arguments", "parse_transaction_argument", "parse_struct_tag"}

\* The closure f each entry point hands to parse, applied to a new parser
\* (cursor on the first token)
f(e, toks) ==
    CASE e = "parse_string_list" ->
            parse_comma_list(Item("parse_string", 0), EOF, TRUE, toks, 1)
      [] e = "parse_type_tags" ->
            parse_comma_list(Item("parse_type_tag", 0), EOF, TRUE, toks, 1)
      [] e = "parse_type_tag" -> parse_type_tag(toks, 1, 0)
      [] e = "parse_transaction_arguments" ->
            parse_comma_list(Item("parse_transaction_argument", 0), EOF, TRUE, toks, 1)
      [] e = "parse_transaction_argument" -> parse_transaction_argument(toks, 1)
      [] e = "parse_struct_tag" -> parse_type_tag(toks, 1, 0)

\* What an entry point returns: a value, or an error message (with the error
\* it wraps, and the number that one was formatted with)
Return(val) == [ok |-> TRUE, val |-> val, err |-> "", cause |-> "", arg |-> 0]

Fail(msg, cause, arg) == [ok |-> FALSE, val |-> NoValue, err |-> msg, cause |-> cause, arg |-> arg]

NoResult == Fail("-", "", 0)

NoRes == Err("-", 0)

\* What the entry point makes of the Result of parse: parse_struct_tag maps the
\* error and takes the StructTag out of a TypeTag::Struct, the others return it
finish(e, r) ==
    IF e = "parse_struct_tag"
    THEN IF ~r.ok THEN Fail("invalid struct tag", r.err, r.arg)
         ELSE IF r.val.tag = "Struct" THEN Return(r.val.st)
         ELSE Fail("invalid struct tag", "", 0)
    ELSE IF r.ok THEN Return(r.val) ELSE Fail(r.err, "", r.arg)

\* tokens.into_iter().filter(|tok| !tok.is_whitespace()).collect()
RECURSIVE filter_whitespace(_)
filter_whitespace(toks) ==
    IF toks = <<>> THEN <<>>
    ELSE IF is_whitespace(Head(toks)) THEN filter_whitespace(Tail(toks))
    ELSE <<Head(toks)>> \o filter_whitespace(Tail(toks))

\* One turn of the loop of tokenize: next_token(s)?, v.push(tok), s = &s[n..].
\* A lexical error leaves parse through its first `?`; None ends the loop.
\* Slicing off a char boundary or past the end panics.
TokenizeStep ==
    /\ pc = "tokenize"
    /\ LET r == next_token(s)
       IN  CASE r.st = "Err" ->
                  /\ pc' = "done"
                  /\ result' = finish(entry, Err(r.err, 0))
                  /\ UNCHANGED <<s, v, offs>>
             [] r.st = "None" ->
                  /\ pc' = "parser"
                  /\ UNCHANGED <<s, v, offs, result>>
             [] r.st = "Some" ->
                  /\ v' = Append(v, r.tok)
                  /\ offs' = Append(offs, str_len(input) - str_len(s))
                  /\ IF is_char_boundary(s, r.n)
                     THEN s' = slice_from(s, r.n) /\ pc' = pc
                     ELSE s' = s /\ pc' = "panic"
                  /\ UNCHANGED result
    /\ UNCHANGED <<entry, input, tokens, res>>

\* parse: the whitespace filter, tokens.push(Token::EOF), Parser::new
NewParser ==
    /\ pc = "parser"
    /\ tokens' = Append(filter_whitespace(v), EOF)
    /\ pc' = "grammar"
    /\ UNCHANGED <<entry, input, s, v, offs, res, result>>

\* parse: let res = f(&mut parser)?
RunGrammar ==
    /\ pc = "grammar"
    /\ res' = f(entry, tokens)
    /\ IF res'.ok
       THEN pc' = "eof" /\ UNCHANGED result
       ELSE pc' = "done" /\ result' = finish(entry, res')
    /\ UNCHANGED <<entry, input, s, v, offs, tokens>>

\* Ok(res) without the check for EOF
expect_eof_unchecked(toks, r) == r

\* parse: parser.consume(Token::EOF)?; Ok(res)
expect_eof(toks, r) ==
    LET c == consume(toks, r.pos, EOF)
    IN  IF c.ok THEN Ok(r.val, c.pos) ELSE c

\* parse: the check for EOF after f has returned res, and what the entry
\* point makes of the Result
ConsumeEOF ==
    /\ pc = "eof"
    /\ result' = finish(entry, expect_eof(tokens, res))
    /\ pc' = "done"
    /\ UNCHANGED <<entry, input, s, v, offs, tokens, res>>

Next == TokenizeStep \/ NewParser \/ RunGrammar \/ ConsumeEOF

\* The state in which entry point e has been called on text
Called(e, text) ==
    /\ entry = e
    /\ input = text
    /\ pc = "tokenize"
    /\ s = text
    /\ v = <<>>
    /\ offs = <<>>
    /\ tokens = <<>>
    /\ res = NoRes
    /\ result = NoResult

---------------------------------------------------------------------------
(* Texts.                                                                  *)

RECURSIVE SeqsUpTo(_, _)
\* The sequences over set of length at most n
SeqsUpTo(set, n) ==
    IF n = 0 THEN {<<>>}
    ELSE LET shorter == SeqsUpTo(set, n - 1)
         IN  shorter \cup {Append(q, x) : q \in shorter, x \in set}

RECURSIVE Concat(_)
\* The words of a sequence joined
Concat(words) == IF words = <<>> THEN <<>> ELSE Head(words) \o Concat(Tail(words))

\* Lexing: every text of at most MaxLexLen characters over LexChars, which
\* holds a character for each arm of next_token and next_number
MaxLexLen == 4

LexChars == {"0", "x", "u", "8", "b", "\"", ":", " ", "_", "<", "U+00E9"}

LexTexts == SeqsUpTo(LexChars, MaxLexLen)

InitLex == \E text \in LexTexts : Called("parse_transaction_argument", text)

SpecLex == InitLex /\ [][Next]_vars

\* Transaction arguments: integer literals and byte strings.
\* An integer literal is digits and a suffix.  The digits are every string of
\* at most MaxDigits characters over NumChars (255 and 256 among them), and
\* the values around u64::MAX and u128::MAX, with and without a leading zero.
MaxDigits == 4

NumChars == {"0", "2", "5", "6"}

\* The text of a value
ToText(val) == [i \in 1..Len(val) |-> HexChars[val[i] + 1]]

\* val + 1 for a val whose last digit is not 9
Succ(val) == [val EXCEPT ![Len(val)] = @ + 1]

BoundaryDigits ==
    UNION {{ToText(MaxValue(w)),
            ToText(Succ(MaxValue(w))),
            <<"0">> \o ToText(MaxValue(w)),
            <<"0", "0">> \o ToText(Succ(MaxValue(w))),
            ToText(MaxValue(w)) \o <<"0">>} : w \in {64, 128}}

NumSuffixes ==
    {<<>>, <<"u", "8">>, <<"u", "6", "4">>, <<"u", "1", "2", "8">>,
     <<"u">>, <<"u", "1", "6">>, <<"U+00E9">>}

NumTexts ==
    {d \o suffix : d \in (SeqsUpTo(NumChars, MaxDigits) \ {<<>>}) \cup BoundaryDigits,
                   suffix \in NumSuffixes}

\* A byte string is x" or b", a body of at most MaxByteBody characters over
\* ByteChars, and a closing quote or none.
MaxByteBody == 3

ByteChars == {"0", "a", "F", "g", " ", "\""}

ByteTexts ==
    {<<p, "\"">> \o body \o close :
        p \in {"x", "b"},
        body \in SeqsUpTo(ByteChars, MaxByteBody),
        close \in {<<>>, <<"\"">>}}

InitArg == \E text \in NumTexts \cup ByteTexts : Called("parse_transaction_argument", text)

SpecArg == InitArg /\ [][Next]_vars

\* Type tags.  Words of the type-tag syntax:
W_u8 == <<"u", "8">>

W_u64 == <<"u", "6", "4">>

W_bool == <<"b", "o", "o", "l">>

W_vector == <<"v", "e", "c", "t", "o", "r">>

W_addr == <<"0", "x", "1">>

W_cc == <<":", ":">>

W_M == <<"M">>

W_S == <<"S">>

W_lt == <<"<">>

W_gt == <<">">>

W_comma == <<",">>

W_struct == W_addr \o W_cc \o W_M \o W_cc \o W_S

\* Every text of at most MaxTypeWords words over TypeWords
MaxTypeWords == 4

TypeWords == {W_u8, W_vector, W_struct, W_lt, W_gt, W_comma}

ShortTypeTexts == {Concat(ws) : ws \in SeqsUpTo(TypeWords, MaxTypeWords)}

RECURSIVE Nested(_)
\* The type tags with n wraps around a leaf, one in the other: a wrap is a
\* vector, a struct with one type argument, with a sibling before it, or with
\* a trailing comma after it
Nested(n) ==
    IF n = 0 THEN {W_u64, W_struct}
    ELSE UNION {{W_vector \o W_lt \o tag \o W_gt,
                 W_struct \o W_lt \o tag \o W_gt,
                 W_struct \o W_lt \o W_u8 \o W_comma \o tag \o W_gt,
                 W_struct \o W_lt \o tag \o W_comma \o W_gt} : tag \in Nested(n - 1)}

\* Nested to the maximum, and one level deeper
NestTexts == UNION {Nested(n) : n \in 0..(MAX_TYPE_TAG_NESTING + 1)}

\* vector< ... <u64> ... > with n wraps
RECURSIVE VectorChain(_)
VectorChain(n) ==
    IF n = 0 THEN W_u64 ELSE W_vector \o W_lt \o VectorChain(n - 1) \o W_gt

\* Two struct tags as words: 0x1::M::S<u8,vector<bool>> and, with an address
\* that is not written as it is rendered and an empty list,
\* 0X0a::M_::S<0xB::M::S<>>
BaseWords ==
    {<<W_addr, W_cc, W_M, W_cc, W_S, W_lt, W_u8, W_comma, W_vector, W_lt, W_bool, W_gt, W_gt>>,
     <<<<"0", "X", "0", "a">>, W_cc, <<"M", "_">>, W_cc, W_S, W_lt,
       <<"0", "x", "B">>, W_cc, W_M, W_cc, W_S, W_lt, W_gt, W_gt>>}

InsertedWords == {W_comma, W_lt, W_gt, W_u8, <<" ">>, <<"\t">>}

\* A base text, cut after any word, or with one word left out, or with one
\* word put in anywhere
Variants(ws) ==
    {SubSeq(ws, 1, n) : n \in 0..Len(ws)}
    \cup {SubSeq(ws, 1, n - 1) \o SubSeq(ws, n + 1, Len(ws)) : n \in 1..Len(ws)}
    \cup {SubSeq(ws, 1, n) \o <<w>> \o SubSeq(ws, n + 1, Len(ws)) :
            n \in 0..Len(ws), w \in InsertedWords}

VariantTexts == {Concat(ws) : ws \in UNION {Variants(b) : b \in BaseWords}}

TypeEntries == {"parse_type_tag", "parse_type_tags", "parse_struct_tag"}

InitType ==
    \/ \E text \in ShortTypeTexts : Called("parse_type_tag", text)
    \/ \E e \in TypeEntries, text \in NestTexts \cup VariantTexts : Called(e, text)

SpecType == InitType /\ [][Next]_vars

\* All six entry points, on every text of at most MaxWords words over Words
MaxWords == 3

Words ==
    {<<"t", "r", "u", "e">>, <<"f", "a", "l", "s", "e">>, <<"3">>, W_u8,
     <<"x", "\"", "a", "b", "\"">>, <<"a">>, W_addr, W_struct, W_vector,
     W_cc, W_lt, W_gt, W_comma, <<" ">>}

WordTexts == {Concat(ws) : ws \in SeqsUpTo(Words, MaxWords)}

Init == \E e \in Entries, text \in WordTexts : Called(e, text)

Spec == Init /\ [][Next]_vars

\* parse_comma_list on its own, on a parser over given tokens: the four lists
\* of the entry points and of struct type arguments, and each of them when the
\* caller does not allow a trailing comma
ListCalls ==
    {[item |-> Item("parse_string", 0), end_token |-> EOF],
     [item |-> Item("parse_transaction_argument", 0), end_token |-> EOF],
     [item |-> Item("parse_type_tag", 0), end_token |-> EOF],
     [item |-> Item("parse_type_tag", 1), end_token |-> Unit("Gt")]}

\* The tokens a list of the call is made of
ListTokens(call) ==
    {Unit("Comma"), call.end_token}
    \cup CASE call.item.f = "parse_string" -> {Tok("Name", <<"a">>), Tok("Name", <<"b">>)}
           [] call.item.f = "parse_transaction_argument" ->
                {Unit("True"), Tok("U8", <<"3">>)}
           [] call.item.f = "parse_type_tag" ->
                {Unit("U8Type"), Unit("VectorType"), Unit("Lt"), Unit("Gt")}

MaxListLen == 5

\* Parser::new(v) for a token vector that ends with EOF, and the call
CalledParseCommaList(call, allow_trailing_comma, toks) ==
    /\ entry = "parse_comma_list"
    /\ input = [item |-> call.item, end_token |-> call.end_token,
                allow_trailing_comma |-> allow_trailing_comma]
    /\ pc = "list"
    /\ s = <<>>
    /\ v = toks
    /\ offs = <<>>
    /\ tokens = Append(toks, EOF)
    /\ res = NoRes
    /\ result = NoResult

\* let res = self.parse_comma_list(parse_list_item, end_token, allow_trailing_comma)
ParseCommaList ==
    /\ pc = "list"
    /\ res' = parse_comma_list(input.item, input.end_token, input.allow_trailing_comma,
                               tokens, 1)
    /\ pc' = "returned"
    /\ UNCHANGED <<entry, input, s, v, offs, tokens, result>>

InitList ==
    \E call \in ListCalls, allow_trailing_comma \in BOOLEAN :
        \E toks \in SeqsUpTo(ListTokens(call), MaxListLen) :
            CalledParseCommaList(call, allow_trailing_comma, toks)

NextList == ParseCommaList

SpecList == InitList /\ [][NextList]_vars

---------------------------------------------------------------------------
(* The lexical rules, stated on a text and the token it is the text of.    *)

AllIn(text, set) == \A i \in 1..Len(text) : text[i] \in set

KeywordSpelling(k) ==
    CASE k = "U8Type" -> <<"u", "8">>
      [] k = "U64Type" -> <<"u", "6", "4">>
      [] k = "U128Type" -> <<"u", "1", "2", "8">>
      [] k = "BoolType" -> <<"b", "o", "o", "l">>
      [] k = "AddressType" -> <<"a", "d", "d", "r", "e", "s", "s">>
      [] k = "VectorType" -> <<"v", "e", "c", "t", "o", "r">>
      [] k = "SignerType" -> <<"s", "i", "g", "n", "e", "r">>
      [] k = "True" -> <<"t", "r", "u", "e">>
      [] k = "False" -> <<"f", "a", "l", "s", "e">>

KeywordKinds ==
    {"U8Type", "U64Type", "U128Type", "BoolType", "AddressType", "VectorType",
     "SignerType", "True", "False"}

\* The suffixes an integer literal of each kind may end with
Suffixes(k) ==
    CASE k = "U8" -> {<<"u", "8">>}
      [] k = "U64" -> {<<>>, <<"u", "6", "4">>}
      [] k = "U128" -> {<<"u", "1", "2", "8">>}

\* text is the whole text of token tok
Spells(text, tok) ==
    LET k == tok.k
        body == SubSeq(text, 3, Len(text) - 1)
    IN  CASE k = "Lt" -> text = <<"<">>
          [] k = "Gt" -> text = <<">">>
          [] k = "Comma" -> text = <<",">>
          [] k = "ColonColon" -> text = <<":", ":">>
          [] k = "Address" ->
                /\ Len(text) >= 3
                /\ text[1] = "0" /\ text[2] \in {"x", "X"}
                /\ AllIn(SubSeq(text, 3, Len(text)), AsciiHexDigits)
                /\ tok.str = <<"0", "x">> \o SubSeq(text, 3, Len(text))
          [] k \in {"U8", "U64", "U128"} ->
                /\ tok.str # <<>>
                /\ AllIn(tok.str, AsciiDigits)
                /\ \E suffix \in Suffixes(k) : text = tok.str \o suffix
          [] k = "Bytes" ->
                /\ Len(text) >= 3
                /\ text[2] = "\"" /\ text[Len(text)] = "\""
                /\ \/ text[1] = "x" /\ AllIn(body, AsciiHexDigits) /\ tok.str = body
                   \/ /\ text[1] = "b"
                      /\ AllIn(body, AsciiChars \ {"\""})
                      /\ Len(tok.str) = 2 * Len(body)
                      /\ \A i \in 1..Len(body) :
                            16 * HexVal(tok.str[2 * i - 1]) + HexVal(tok.str[2 * i])
                                = Ord(body[i])
          [] k = "Whitespace" ->
                text # <<>> /\ AllIn(text, AsciiWhitespace) /\ tok.str = text
          [] k = "Name" ->
                /\ text = tok.str
                /\ text # <<>>
                /\ text[1] \in AsciiAlphabetic
                /\ AllIn(text, IdentifierChars)
                /\ \A kw \in KeywordKinds : text # KeywordSpelling(kw)
          [] k \in KeywordKinds -> text = KeywordSpelling(k) /\ tok.str = <<>>
          [] OTHER -> FALSE

\* The bytes of input that tokenize has consumed
Consumed == str_len(input) - str_len(s)

\* The characters of text from byte offset a up to byte offset b
BytesOf(text, a, b) ==
    LET i == CHOOSE j \in 0..Len(text) : str_len(SubSeq(text, 1, j)) = a
        k == CHOOSE j \in 0..Len(text) : str_len(SubSeq(text, 1, j)) = b
    IN  SubSeq(text, i + 1, k)

\* Where the text of the i-th token ends: where the next one starts
SegEnd(i) == IF i < Len(offs) THEN offs[i + 1] ELSE Consumed

\* tokenize has returned Ok(v)
Tokenized == pc \in {"parser", "grammar", "eof"} \/ (pc = "done" /\ tokens # <<>>)

\* C9: tokenize ends with a token list or an error after at most one call of
\* next_token per byte of the input: every successful call on a non-empty
\* remainder returns a length n with 1 <= n <= the remainder's length that is
\* a char boundary and is the byte length of the text of the token it returns
\* (prefixes, quotes and suffix included), the slice never panics, and the
\* texts of the tokens pushed, in order, are the input consumed so far, all of
\* it once tokenize has returned.
TokenizeAdvancesAndCovers ==
    /\ pc # "panic"
    /\ Len(offs) = Len(v)
    /\ Len(v) <= Consumed /\ Consumed <= str_len(input)
    /\ is_char_boundary(input, Consumed)
    /\ s = slice_from(input, Consumed)
    /\ Len(v) > 0 => offs[1] = 0
    /\ \A i \in 1..Len(v) :
          /\ offs[i] < SegEnd(i)
          /\ is_char_boundary(input, offs[i])
          /\ Spells(BytesOf(input, offs[i], SegEnd(i)), v[i])
    /\ pc = "tokenize" =>
          LET r == next_token(s)
          IN  /\ r.st = "None" <=> s = <<>>
              /\ r.st = "Some" =>
                    /\ 1 <= r.n /\ r.n <= str_len(s)
                    /\ is_char_boundary(s, r.n)
                    /\ Spells(BytesOf(s, 0, r.n), r.tok)
    /\ Tokenized => s = <<>>

\* C9 witness: tokenize returned two tokens, the first an integer literal
\* with the suffix u8
TokenizeAdvancesAndCoversWitness ==
    /\ Tokenized
    /\ Len(v) = 2
    /\ v[1].k = "U8"
    /\ offs = <<0, 3>>

---------------------------------------------------------------------------
(* Integer literals.                                                       *)

RECURSIVE TimesLE(_, _, _)
\* k times a number given least significant digit first, plus carry
TimesLE(le, k, carry) ==
    IF le = <<>>
    THEN (IF carry = 0 THEN <<>> ELSE <<carry % 10>> \o TimesLE(<<>>, k, carry \div 10))
    ELSE LET d == k * Head(le) + carry
         IN  <<d % 10>> \o TimesLE(Tail(le), k, d \div 10)

Reverse(q) == [i \in 1..Len(q) |-> q[Len(q) + 1 - i]]

RECURSIVE Pow2LE(_)
\* 2^n, least significant digit first: sixteen doublings at a time
Pow2LE(n) ==
    IF n = 0 THEN <<1>>
    ELSE IF n >= 16 THEN TimesLE(Pow2LE(n - 16), 65536, 0)
    ELSE TimesLE(Pow2LE(n - 1), 2, 0)

\* 2^n
Pow2(n) == Reverse(Pow2LE(n))

\* a < b for two values
NumLess(a, b) ==
    \/ Len(a) < Len(b)
    \/ Len(a) = Len(b) /\ \E i \in 1..Len(a) : a[i] < b[i] /\ \A j \in 1..(i - 1) : a[j] = b[j]

\* The value of a digit string: leading zeros ignored
ValueOf(d) ==
    LET nz == RunEnd(d, 1, {"0"})
    IN  IF nz > Len(d) THEN <<0>>
        ELSE [i \in 1..(Len(d) - nz + 1) |-> HexVal(d[nz + i - 1])]

\* The digits an integer literal starts with, and what follows them
DigitsOf(text) == SubSeq(text, 1, RunEnd(text, 1, AsciiDigits) - 1)

SuffixOf(text) == SubSeq(text, RunEnd(text, 1, AsciiDigits), Len(text))

WidthSuffixes == {<<>>, <<"u", "8">>, <<"u", "6", "4">>, <<"u", "1", "2", "8">>}

WidthOf(suffix) ==
    CASE suffix = <<"u", "8">> -> 8
      [] suffix = <<"u", "1", "2", "8">> -> 128
      [] OTHER -> 64

VariantOf(w) == CASE w = 8 -> "U8" [] w = 64 -> "U64" [] w = 128 -> "U128"

\* C4: parse_transaction_argument on a digit string d with suffix u8, u64,
\* u128 or none (width w = 8, 64, 128, 64) returns the variant of width w
\* holding the value of d when that value is below 2^w, and an error and no
\* value when it is 2^w or more.
IntegerLiteralExact ==
    (pc = "done" /\ entry = "parse_transaction_argument"
        /\ DigitsOf(input) # <<>> /\ SuffixOf(input) \in WidthSuffixes)
    => LET w == WidthOf(SuffixOf(input))
           val == ValueOf(DigitsOf(input))
       IN  IF NumLess(val, Pow2(w))
           THEN result.ok /\ result.val = Arg(VariantOf(w), val)
           ELSE ~result.ok /\ result.val = NoValue

\* C4 witness: u128::MAX with its suffix was parsed to U128(u128::MAX)
IntegerLiteralExactWitness ==
    /\ pc = "done"
    /\ input = ToText(MaxValue(128)) \o <<"u", "1", "2", "8">>
    /\ result.ok
    /\ result.val = Arg("U128", MaxValue(128))

---------------------------------------------------------------------------
(* Byte strings.                                                           *)

\* The bytes that a string of hex digits of even length encodes
BytesOfHex(h) ==
    [i \in 1..(Len(h) \div 2) |-> 16 * HexVal(h[2 * i - 1]) + HexVal(h[2 * i])]

\* The text between the opening quote of a byte string and the last character
QuotedBody(text) == SubSeq(text, 3, Len(text) - 1)

\* C8: parse_transaction_argument on x"h" returns U8Vector of the bytes h
\* encodes when h is hex digits of even length, and an error when h has odd
\* length or holds another character; on b"a", for ASCII a without a double
\* quote, it returns U8Vector of the codes of a; an opening x" or b" with no
\* closing quote is an error.
ByteStringDecodes ==
    (pc = "done" /\ entry = "parse_transaction_argument"
        /\ Len(input) >= 2 /\ input[1] \in {"x", "b"} /\ input[2] = "\"")
    => LET body == QuotedBody(input)
           closed == Len(input) >= 3 /\ input[Len(input)] = "\""
       IN  /\ (closed /\ input[1] = "x") =>
                 IF AllIn(body, AsciiHexDigits) /\ Len(body) % 2 = 0
                 THEN result.ok /\ result.val = Arg("U8Vector", BytesOfHex(body))
                 ELSE ~result.ok
           /\ (closed /\ input[1] = "b" /\ AllIn(body, AsciiChars \ {"\""})) =>
                 /\ result.ok
                 /\ result.val = Arg("U8Vector", [i \in 1..Len(body) |-> Ord(body[i])])
           /\ AllIn(SubSeq(input, 3, Len(input)), (AsciiChars \cup NonAscii) \ {"\""}) =>
                 ~result.ok

\* C8 witness: x"aF" was parsed to U8Vector([0xaf])
ByteStringDecodesWitness ==
    /\ pc = "done"
    /\ input = <<"x", "\"", "a", "F", "\"">>
    /\ result.ok
    /\ result.val = Arg("U8Vector", <<175>>)

---------------------------------------------------------------------------
(* Type tags: nesting.                                                     *)

Max(S) == CHOOSE n \in S : \A m \in S : m <= n

\* How deep a type tag nests: one for each vector, one for each struct with
\* type arguments; the arguments of one list are on one level
RECURSIVE TagDepth(_)
TagDepth(tag) ==
    CASE tag.tag = "Vector" -> 1 + TagDepth(tag.ty)
      [] tag.tag = "Struct" ->
            IF tag.st.type_params = <<>> THEN 0
            ELSE 1 + Max({TagDepth(tag.st.type_params[i]) :
                            i \in 1..Len(tag.st.type_params)})
      [] OTHER -> 0

\* The type tags an entry point has returned
ReturnedTags ==
    CASE entry = "parse_type_tag" -> {result.val}
      [] entry = "parse_type_tags" -> {result.val[i] : i \in 1..Len(result.val)}
      [] entry = "parse_struct_tag" -> {Struct(result.val)}
      [] OTHER -> {}

KindAt(toks, i) == IF i \in 1..Len(toks) THEN toks[i].k ELSE "-"

\* How many < are open after the first i tokens, and the most there ever are
Open(toks, i) ==
    Cardinality({j \in 1..i : toks[j].k = "Lt"}) - Cardinality({j \in 1..i : toks[j].k = "Gt"})

MaxOpen(toks) == Max({Open(toks, i) : i \in 0..Len(toks)})

NestingLimitMessage == "Exceeded TypeTag nesting limit during parsing"

\* The entry point has returned the error of the nesting guard (parse_struct_tag
\* wraps it)
NestingError ==
    /\ pc = "done"
    /\ ~result.ok
    /\ NestingLimitMessage \in {result.err, result.cause}

Returned(e) == pc = "done" /\ entry = e

\* C1 as stated: a chain of exactly MAX_TYPE_TAG_NESTING vector wraps around a
\* primitive parses, and a chain of MAX_TYPE_TAG_NESTING + 1 wraps fails with
\* the nesting-limit error
VectorChainAtLimitParses ==
    Returned("parse_type_tag") =>
        /\ input = VectorChain(MAX_TYPE_TAG_NESTING) => result.ok
        /\ input = VectorChain(MAX_TYPE_TAG_NESTING + 1) => NestingError

\* C1, as the code has it: the guard fires when depth has reached the maximum,
\* so a chain of MAX_TYPE_TAG_NESTING - 1 vector wraps around a primitive
\* parses (to a tag of that depth), and a chain of MAX_TYPE_TAG_NESTING wraps,
\* like one of MAX_TYPE_TAG_NESTING + 1, fails with the nesting-limit error,
\* raised at depth MAX_TYPE_TAG_NESTING
VectorChainBelowLimitParses ==
    Returned("parse_type_tag") =>
        /\ input = VectorChain(MAX_TYPE_TAG_NESTING - 1) =>
              result.ok /\ TagDepth(result.val) = MAX_TYPE_TAG_NESTING - 1
        /\ input \in {VectorChain(MAX_TYPE_TAG_NESTING), VectorChain(MAX_TYPE_TAG_NESTING + 1)} =>
              NestingError /\ result.arg = MAX_TYPE_TAG_NESTING

VectorChainBelowLimitParsesWitness ==
    /\ Returned("parse_type_tag")
    /\ input = VectorChain(MAX_TYPE_TAG_NESTING)
    /\ NestingError

\* C2: no returned TypeTag nests deeper than MAX_TYPE_TAG_NESTING, no call of
\* parse_type_tag gets a depth above MAX_TYPE_TAG_NESTING (a call with depth at
\* or above the maximum ends the parse with the nesting-limit error, which
\* carries that depth), and a text that nests deeper than the maximum is an
\* error
NestingBounded ==
    pc = "done" /\ entry \in TypeEntries =>
        /\ result.ok => \A tag \in ReturnedTags : TagDepth(tag) <= MAX_TYPE_TAG_NESTING
        /\ NestingError => result.arg <= MAX_TYPE_TAG_NESTING
        /\ Tokenized /\ MaxOpen(tokens) > MAX_TYPE_TAG_NESTING => ~result.ok

NestingBoundedWitness ==
    /\ Returned("parse_type_tag")
    /\ result.ok
    /\ result.val.tag = "Struct"
    /\ Len(result.val.st.type_params) = 2
    /\ TagDepth(result.val) = MAX_TYPE_TAG_NESTING - 1

---------------------------------------------------------------------------
(* Type tags: the grammar.                                                 *)

PrimitiveKinds == {"U8Type", "U64Type", "U128Type", "BoolType", "AddressType", "SignerType"}

\* The positions a derivation can end before, read off the grammar
\*   TypeTag := primitive | "vector" "<" TypeTag ">"
\*            | Address "::" Name "::" Name [ "<" List ">" ]
\*   Items   := TypeTag { "," TypeTag }
\*   List    := Items [ "," ]         (or nothing, where a list may be empty)
RECURSIVE TypeTagEnds(_, _, _)
RECURSIVE ItemsEnds(_, _, _)

Closed(toks, ends) == {j + 1 : j \in {e \in ends : KindAt(toks, e) = "Gt"}}

ListEnds(toks, i, may_be_empty) ==
    LET ends == ItemsEnds(toks, i, may_be_empty)
    IN  ends \cup {j + 1 : j \in {e \in ends : KindAt(toks, e) = "Comma"}}
             \cup (IF may_be_empty THEN {i} ELSE {})

ItemsEnds(toks, i, may_be_empty) ==
    LET first == TypeTagEnds(toks, i, may_be_empty)
    IN  first \cup UNION {ItemsEnds(toks, j + 1, may_be_empty) :
                            j \in {e \in first : KindAt(toks, e) = "Comma"}}

TypeTagEnds(toks, i, may_be_empty) ==
    CASE KindAt(toks, i) \in PrimitiveKinds -> {i + 1}
      [] KindAt(toks, i) = "VectorType" /\ KindAt(toks, i + 1) = "Lt" ->
            Closed(toks, TypeTagEnds(toks, i + 2, may_be_empty))
      [] /\ KindAt(toks, i) = "Address"
         /\ KindAt(toks, i + 1) = "ColonColon"
         /\ KindAt(toks, i + 2) = "Name"
         /\ KindAt(toks, i + 3) = "ColonColon"
         /\ KindAt(toks, i + 4) = "Name" ->
            {i + 5} \cup (IF KindAt(toks, i + 5) = "Lt"
                          THEN Closed(toks, ListEnds(toks, i + 6, may_be_empty))
                          ELSE {})
      [] OTHER -> {}

\* The tokens before EOF are one TypeTag of the grammar
Derivable(may_be_empty) == Len(tokens) \in TypeTagEnds(tokens, 1, may_be_empty)

\* Every address and name among the tokens is one that
\* AccountAddress::from_hex_literal and Identifier::new take
CollaboratorsAccept ==
    \A i \in 1..Len(tokens) :
        /\ tokens[i].k = "Address" => from_hex_literal(tokens[i].str).ok
        /\ tokens[i].k = "Name" => identifier_new(tokens[i].str).ok

WithinGrammarClaim ==
    /\ Returned("parse_type_tag")
    /\ Tokenized
    /\ MaxOpen(tokens) < MAX_TYPE_TAG_NESTING
    /\ CollaboratorsAccept

\* C7 as stated: parse_type_tag takes a token sequence, nested less deep than
\* the limit and with addresses and names the collaborators take, exactly when
\* the grammar derives it, an angle-bracket list being one or more TypeTags
\* separated by commas with an optional trailing comma
TypeTagGrammarNonEmptyLists ==
    WithinGrammarClaim => (result.ok <=> Derivable(FALSE))

\* C7, as the code has it: the same, with an angle-bracket list of zero or
\* more TypeTags (0x1::M::S<> parses, to a struct tag without type
\* parameters; a lone comma between the brackets does not)
TypeTagGrammar ==
    WithinGrammarClaim => (result.ok <=> Derivable(TRUE))

TypeTagGrammarWitness ==
    /\ WithinGrammarClaim
    /\ result.ok
    /\ \E i \in 1..(Len(tokens) - 1) : tokens[i].k = "Lt" /\ tokens[i + 1].k = "Gt"
    /\ \E i \in 1..(Len(tokens) - 1) : tokens[i].k = "Comma" /\ tokens[i + 1].k = "Gt"

---------------------------------------------------------------------------
(* Struct tags: the canonical rendering.                                   *)

\* AccountAddress::short_str_lossless: the hex digits without leading zeros,
\* "0" for the zero address
RECURSIVE short_str_lossless(_)
short_str_lossless(hex) ==
    IF hex = <<>> THEN <<"0">>
    ELSE IF Head(hex) = "0" THEN short_str_lossless(Tail(hex))
    ELSE hex

PrimitiveSpelling ==
    [U8 |-> W_u8, U64 |-> W_u64, U128 |-> <<"u", "1", "2", "8">>, Bool |-> W_bool,
     Address |-> <<"a", "d", "d", "r", "e", "s", "s">>,
     Signer |-> <<"s", "i", "g", "n", "e", "r">>]

RECURSIVE render_type_tag(_)
RECURSIVE render_type_params(_)

\* Display for StructTag: 0x<short address>::<module>::<name>, then the type
\* parameters, if any, between < and >, separated by ", "
render_struct_tag(st) ==
    <<"0", "x">> \o short_str_lossless(st.address) \o W_cc \o st.module \o W_cc \o st.name
    \o (IF st.type_params = <<>> THEN <<>>
        ELSE W_lt \o render_type_params(st.type_params) \o W_gt)

render_type_params(tags) ==
    IF Len(tags) = 1 THEN render_type_tag(tags[1])
    ELSE render_type_tag(Head(tags)) \o <<",", " ">> \o render_type_params(Tail(tags))

\* Display for TypeTag
render_type_tag(tag) ==
    CASE tag.tag = "Vector" -> W_vector \o W_lt \o render_type_tag(tag.ty) \o W_gt
      [] tag.tag = "Struct" -> render_struct_tag(tag.st)
      [] OTHER -> PrimitiveSpelling[tag.tag]

\* s.replace(" ", "")
RemoveSpaces(text) == SelectSeq(text, LAMBDA c : c # " ")

\* The text of the i-th token of the input
TextOf(i) == BytesOf(input, offs[i], SegEnd(i))

\* An address literal written as it is rendered: 0x, then lowercase hex digits
\* without a leading zero (0x0 for zero)
CanonicalAddress(text) ==
    /\ Len(text) >= 3
    /\ SubSeq(text, 1, 2) = <<"0", "x">>
    /\ \A i \in 3..Len(text) : text[i] \in AsciiDigits \cup {"a", "b", "c", "d", "e", "f"}
    /\ text[3] = "0" => Len(text) = 3

\* The input is written as struct tags are rendered, spaces aside
WrittenCanonically ==
    /\ \A i \in 1..Len(v) :
          /\ v[i].k = "Address" => CanonicalAddress(TextOf(i))
          /\ v[i].k = "Whitespace" => AllIn(TextOf(i), {" "})
    /\ \A i \in 1..(Len(tokens) - 1) :
          tokens[i + 1].k = "Gt" => tokens[i].k \notin {"Lt", "Comma"}

AcceptedStructTag == Returned("parse_struct_tag") /\ result.ok

\* C3 as stated: for every text parse_struct_tag accepts, the rendering of the
\* struct tag it returns is the text, spaces removed from both
RoundTripOfEveryAcceptedText ==
    AcceptedStructTag => RemoveSpaces(render_struct_tag(result.val)) = RemoveSpaces(input)

\* C3, as the code has it: the rendering is the text, spaces removed from
\* both, for every accepted text that is written canonically: address literals
\* as 0x and lowercase hex digits without leading zeros, no empty <> and no
\* trailing comma in a type-argument list, no whitespace other than spaces;
\* every other accepted text renders differently
RoundTripOfCanonicalText ==
    AcceptedStructTag =>
        (RemoveSpaces(render_struct_tag(result.val)) = RemoveSpaces(input)
            <=> WrittenCanonically)

RoundTripOfCanonicalTextWitness ==
    /\ AcceptedStructTag
    /\ WrittenCanonically
    /\ \E i \in 1..Len(v) : v[i].k = "Whitespace"
    /\ \E i \in 1..Len(result.val.type_params) : result.val.type_params[i].tag = "Vector"

---------------------------------------------------------------------------
(* Comma lists.                                                            *)

\* toks without its i-th token
Without(toks, i) == SubSeq(toks, 1, i - 1) \o SubSeq(toks, i + 1, Len(toks))

\* The call of the state, on other tokens
SameCallOn(toks) ==
    parse_comma_list(input.item, input.end_token, input.allow_trailing_comma, toks, 1)

\* The i-th token is the one comma right before the terminator, and without
\* it the call returns a list of one or more items that ends at that terminator
TrailingCommaAt(i) ==
    /\ i \in 2..(Len(tokens) - 1)
    /\ tokens[i] = Unit("Comma")
    /\ tokens[i - 1] # Unit("Comma")
    /\ tokens[i + 1] = input.end_token
    /\ LET r == parse_comma_list(input.item, input.end_token, TRUE, Without(tokens, i), 1)
       IN  r.ok /\ r.pos = i /\ r.val # <<>>

\* C5: where a trailing comma is allowed, a list of one or more items and one
\* comma before the terminator parses to what the list without the comma
\* parses to, and the cursor is on the terminator; a comma with no item
\* before it (first in a list, or after another comma) is rejected; where a
\* trailing comma is not allowed, the list with it is rejected
TrailingCommaOnlyWhenAllowed ==
    pc = "returned" =>
        /\ \A i \in 1..Len(tokens) :
              TrailingCommaAt(i) =>
                 IF input.allow_trailing_comma
                 THEN /\ res.ok
                      /\ res.val = SameCallOn(Without(tokens, i)).val
                      /\ res.pos = i + 1
                 ELSE ~res.ok
        /\ res.ok =>
              \A i \in 1..(res.pos - 1) :
                  tokens[i] = Unit("Comma") =>
                      i > 1 /\ tokens[i - 1].k \notin {"Comma", "Lt"}

TrailingCommaOnlyWhenAllowedWitness ==
    /\ pc = "returned"
    /\ ~input.allow_trailing_comma
    /\ \E i \in 1..Len(tokens) : TrailingCommaAt(i)
    /\ ~res.ok

---------------------------------------------------------------------------
(* The end of the input.                                                   *)

NonWhitespace == Cardinality({i \in 1..Len(v) : ~is_whitespace(v[i])})

\* f has returned a value with tokens before EOF left
Leftover == Tokenized /\ res.ok /\ res.pos < Len(tokens)

\* C6: an entry point returns a value only if its grammar routine has returned
\* one with the cursor past every non-whitespace token of the input and on the
\* EOF appended to them; if the routine returns a value with any token left,
\* the entry point returns an error and no value
SucceedsOnlyAtEOF ==
    pc = "done" =>
        /\ result.ok =>
              /\ Tokenized
              /\ res.ok
              /\ res.pos = NonWhitespace + 1
              /\ res.pos = Len(tokens)
              /\ tokens[res.pos] = EOF
        /\ Leftover => ~result.ok /\ result.val = NoValue

SucceedsOnlyAtEOFWitness ==
    /\ pc = "done"
    /\ Leftover
    /\ ~result.ok
    /\ \E i \in 1..Len(v) : is_whitespace(v[i])

OutOfTokens == "out of tokens, this should not happen"

\* C10: the cursor never goes past the appended EOF: a grammar routine that
\* has taken EOF returns an error, the check for EOF at the end runs with EOF
\* not taken, and no Result is the `out of tokens` error of Parser::next
CursorNeverPastEOF ==
    /\ OutOfTokens \notin {res.err, result.err, result.cause}
    /\ pc \in {"eof", "done"} /\ Tokenized /\ res # NoRes =>
          /\ res.pos <= Len(tokens) + 1
          /\ res.pos = Len(tokens) + 1 => ~res.ok
    /\ pc = "eof" => res.pos <= Len(tokens)

CursorNeverPastEOFWitness ==
    /\ pc = "done"
    /\ Tokenized
    /\ res.pos = Len(tokens) + 1
    /\ ~res.ok
    /\ Len(tokens) > 1

====
